---- MODULE Spec2Model ----
(***************************************************************************)
(* A model of the document facade (odr/src/Document.cpp), of the OOXML     *)
(* decrypt protocol, of the ODF style resolver (odf/src/StyleTranslator)   *)
(* and of the content translator (src/ContentTranslator.cpp).              *)
(*                                                                         *)
(* The storage readers (access::ZipReader, access::CfbReader) and the two  *)
(* document classes (odf::OpenDocument, ooxml::OfficeOpenXml) are used by  *)
(* Document.cpp but their code is not part of the sources at hand; they    *)
(* are modelled from the specification (sections 4.1, 4.2, 6).             *)
(***************************************************************************)
EXTENDS Integers, Sequences, FiniteSets, TLC

\* handle   : the Document the caller holds (NullHandle: none)
\* last     : the last facade call: its arguments, what it returned, and the
\*            handle it was made on
\* failures : decrypt calls that returned false on the handle held
\* pr       : a run of the OOXML decrypt protocol, step by step
\* tr       : a run of the content translator
\* st       : a run of the style resolver
VARIABLES handle, last, failures, pr, tr, st

vars == <<handle, last, failures, pr, tr, st>>

(***************************************************************************)
(* Bounds of the model.                                                    *)
(***************************************************************************)
\* passwords are 1..NumPasswords
NumPasswords == 2

Passwords == 1..NumPasswords

\* failed decrypt attempts counted on one handle
MaxAttempts == 2

\* style definitions resolved in one pass
MaxStyles == 2

\* nodes of a content tree
MaxNodes == 3

\* characters of a style name
MaxNameLen == 3

\* attributes of a properties element
MaxProperties == 2

(***************************************************************************)
(* Input files.                                                            *)
(***************************************************************************)
OdfKinds == {"OdfText", "OdfSpreadsheet"}

LegacyStreams == {"WordDocument", "PowerPoint Document", "Workbook"}

EncryptionStreams == {"EncryptionInfo", "EncryptedPackage"}

Streams == LegacyStreams \cup EncryptionStreams

\* what an "EncryptedPackage" stream decrypts to: a ZIP holding this
InnerKinds == {"OOXML", "OdfText"}

\* container : what the bytes are ("zip", "cfb", or neither)
\* content   : the package a ZIP holds (an ODF kind, "OOXML", or "none")
\* streams   : the named streams of a CFB container
\* enc       : an ODF package whose manifest declares encrypted parts
\* inner     : the package inside the CFB "EncryptedPackage" stream
\* password  : the password that verifies
\* broken    : the package is malformed: building a document over it fails
File(container, content, streams, enc, inner, password, broken) ==
    [container |-> container, content |-> content, streams |-> streams,
     enc |-> enc, inner |-> inner, password |-> password, broken |-> broken]

OtherFiles == {File("other", "none", {}, FALSE, "none", 1, FALSE)}

ZipFiles ==
    {File("zip", k, {}, FALSE, "none", 1, b) :
        k \in OdfKinds \cup {"OOXML"}, b \in BOOLEAN}
    \cup {File("zip", k, {}, TRUE, "none", p, b) :
            k \in OdfKinds, p \in Passwords, b \in BOOLEAN}
    \cup {File("zip", "none", {}, FALSE, "none", 1, FALSE)}

\* a CFB container with a legacy stream is typed by that stream alone: what
\* else it holds is not looked at, and is not varied here
CfbLegacyFiles ==
    {File("cfb", "none", l \cup e, FALSE, "none", 1, FALSE) :
        l \in (SUBSET LegacyStreams) \ {{}}, e \in SUBSET EncryptionStreams}

CfbGenericFiles ==
    {File("cfb", "none", e, FALSE, "none", 1, b) :
        e \in (SUBSET EncryptionStreams) \ {EncryptionStreams}, b \in BOOLEAN}
    \cup {File("cfb", "none", EncryptionStreams, FALSE, i, p, b) :
            i \in InnerKinds, p \in Passwords, b \in BOOLEAN}

CfbFiles == CfbLegacyFiles \cup CfbGenericFiles

Files == OtherFiles \cup ZipFiles \cup CfbFiles

(***************************************************************************)
(* FileMeta and FileType (odr/Meta.h as used by Document.cpp).             *)
(***************************************************************************)
FileMeta(type, encrypted, entries) ==
    [type |-> type, encrypted |-> encrypted, entries |-> entries]

\* a value-initialised FileMeta: `FileMeta meta;` and `return {};`
DefaultMeta == FileMeta("UNKNOWN", FALSE, <<>>)

LegacyTypes ==
    {"LEGACY_WORD_DOCUMENT", "LEGACY_POWERPOINT_PRESENTATION",
     "LEGACY_EXCEL_WORKSHEETS"}

(***************************************************************************)
(* Storage collaborator (specification section 6): a reader either opens   *)
(* the container or throws its format-mismatch signal.                     *)
(***************************************************************************)
ZipReader(f) ==
    IF f.container = "zip" THEN [ok |-> TRUE, exc |-> "none"]
    ELSE [ok |-> FALSE, exc |-> "NoZipFileException"]

CfbReader(f) ==
    IF f.container = "cfb" THEN [ok |-> TRUE, exc |-> "none"]
    ELSE [ok |-> FALSE, exc |-> "NoCfbFileException"]

isFile(f, name) == name \in f.streams

(***************************************************************************)
(* The document classes (specification sections 4.1 and 4.2).  A document  *)
(* is the state behind document_:                                          *)
(*   storage   : the container it reads ("zip", "cfb"; "none" for no       *)
(*               document)                                                 *)
(*   package   : the package it sees in that storage                       *)
(*   pair      : a CFB storage with both encryption streams                *)
(*   locked    : content is encrypted and not yet decrypted                *)
(*   decrypted : a decrypt has succeeded                                   *)
(*   key       : the password that verifies                                *)
(*   inner     : what the encrypted package holds                          *)
(***************************************************************************)
NoDocument ==
    [storage |-> "none", package |-> "none", pair |-> FALSE, locked |-> FALSE,
     decrypted |-> FALSE, key |-> 1, inner |-> "none"]

\* odf::OpenDocument(storage): recognises a ZIP holding an ODF package,
\* signals "not this format" otherwise
OpenDocument(f) ==
    IF f.container = "zip" /\ f.content \in OdfKinds /\ ~f.broken
    THEN [ok |-> TRUE,
          d |-> [storage |-> "zip", package |-> f.content, pair |-> FALSE,
                 locked |-> f.enc, decrypted |-> FALSE, key |-> f.password,
                 inner |-> "none"]]
    ELSE [ok |-> FALSE, d |-> NoDocument]

\* ooxml::OfficeOpenXml(storage): recognises a ZIP holding an OOXML package,
\* and a CFB container as a possibly encrypted OOXML package
OfficeOpenXml(f) ==
    IF f.container = "zip" /\ f.content = "OOXML" /\ ~f.broken
    THEN [ok |-> TRUE,
          d |-> [storage |-> "zip", package |-> "OOXML", pair |-> FALSE,
                 locked |-> FALSE, decrypted |-> FALSE, key |-> 1,
                 inner |-> "none"]]
    ELSE IF f.container = "cfb" /\ ~f.broken
    THEN [ok |-> TRUE,
          d |-> [storage |-> "cfb", package |-> "none",
                 pair |-> EncryptionStreams \subseteq f.streams,
                 locked |-> EncryptionStreams \subseteq f.streams,
                 decrypted |-> FALSE, key |-> f.password, inner |-> f.inner]]
    ELSE [ok |-> FALSE, d |-> NoDocument]

\* odf::OpenDocument::getMeta(): the package kind is readable from the
\* unencrypted parts; encrypted flips to false once decrypted
OpenDocument_getMeta(d) ==
    FileMeta(d.package, d.locked, IF d.locked THEN <<>> ELSE <<"content">>)

\* ooxml::OfficeOpenXml::getMeta(): over a CFB storage the generic compound
\* binary, encrypted when both encryption streams are there; over a ZIP the
\* OOXML kind, when the package is one
OfficeOpenXml_getMeta(d) ==
    IF d.storage = "cfb"
    THEN FileMeta("COMPOUND_FILE_BINARY_FORMAT", d.pair, <<>>)
    ELSE IF d.package = "OOXML"
    THEN FileMeta("OOXML", FALSE, <<"content">>)
    ELSE FileMeta("UNKNOWN", FALSE, <<>>)

isDecrypted(d) == d.decrypted


\* the result of a call that may throw: raised, or a value and the state
\* the call leaves; log lists the steps of a decrypt attempt in order
Result(raised, value, d, log) ==
    [raised |-> raised, value |-> value, d |-> d, log |-> log]

\* canHtml(): content is readable and of the document's own format
OpenDocument_canHtml(d) == ~d.locked

OfficeOpenXml_canHtml(d) == d.storage = "zip" /\ d.package = "OOXML"

\* the editing and saving paths are contract stubs (section 1)
canEdit(d) == FALSE

canSaveDoc(d, encrypted) == FALSE

\* odf::OpenDocument::decrypt (section 4.2, ODF protocol): derive the key,
\* verify it against the stored checksum, then decrypt and inflate.  fault:
\* the attempt fails fatally (truncated ciphertext, unknown algorithm)
OpenDocument_decrypt(d, password, fault) ==
    IF fault THEN Result(TRUE, FALSE, d, <<"manifest">>)
    ELSE IF ~d.locked THEN Result(FALSE, FALSE, d, <<>>)
    ELSE IF password # d.key
    THEN Result(FALSE, FALSE, d, <<"manifest", "deriveKey", "verify">>)
    ELSE Result(FALSE, TRUE, [d EXCEPT !.locked = FALSE, !.decrypted = TRUE],
                <<"manifest", "deriveKey", "verify", "decrypt", "inflate">>)

\* ooxml::OfficeOpenXml::decrypt (section 4.2, OOXML protocol): read
\* "EncryptionInfo", derive the key, verify it; on success decrypt
\* "EncryptedPackage" into a raw ZIP, which becomes the document's storage
OfficeOpenXml_decrypt(d, password, fault) ==
    IF fault THEN Result(TRUE, FALSE, d, <<"EncryptionInfo">>)
    ELSE IF ~d.locked THEN Result(FALSE, FALSE, d, <<>>)
    ELSE IF password # d.key
    THEN Result(FALSE, FALSE, d, <<"EncryptionInfo", "deriveKey", "verify">>)
    ELSE Result(FALSE, TRUE,
                [d EXCEPT !.storage = "zip", !.package = d.inner,
                          !.pair = FALSE, !.locked = FALSE,
                          !.decrypted = TRUE],
                <<"EncryptionInfo", "deriveKey", "verify", "EncryptedPackage",
                  "decrypt", "ZipReader">>)

\* html(path, config) of either document class: translates what canHtml
\* allows; fault: the translation fails part-way
html(d, can, fault) ==
    IF fault THEN Result(TRUE, FALSE, d, <<>>)
    ELSE Result(FALSE, can, d, <<>>)

\* edit(diff), save(path), save(path, password): stubs that may fail
edit(d, fault) == Result(fault, FALSE, d, <<>>)

save(d, fault) == Result(fault, FALSE, d, <<>>)

\* a const query of the document that fails: fault
Query(value, d, fault) ==
    IF fault THEN Result(TRUE, FALSE, d, <<>>) ELSE Result(FALSE, value, d, <<>>)


(***************************************************************************)
(* Document::Impl and its two subclasses.  A handle is the Impl object     *)
(* behind a Document: its class, its meta_ and (for the subclasses) its    *)
(* document_.                                                              *)
(***************************************************************************)
Handle(impl, meta, d) == [impl |-> impl, meta_ |-> meta, document_ |-> d]

\* no Document: what open returns on failure
NullHandle == Handle("null", DefaultMeta, NoDocument)

\* Impl(FileMeta meta)
Impl(meta) == Handle("Impl", meta, NoDocument)

\* OpenDocumentImpl(storage): throws when document_{storage} does
OpenDocumentImpl(f) ==
    LET doc == OpenDocument(f)
    IN  IF doc.ok
        THEN [ok |-> TRUE,
              h |-> Handle("OpenDocumentImpl", OpenDocument_getMeta(doc.d),
                           doc.d)]
        ELSE [ok |-> FALSE, h |-> NullHandle]

\* OfficeOpenXmlImpl(storage): throws when document_{storage} does
OfficeOpenXmlImpl(f) ==
    LET doc == OfficeOpenXml(f)
    IN  IF doc.ok
        THEN [ok |-> TRUE,
              h |-> Handle("OfficeOpenXmlImpl", OfficeOpenXml_getMeta(doc.d),
                           doc.d)]
        ELSE [ok |-> FALSE, h |-> NullHandle]

\* Impl::type(), Impl::encrypted(), Impl::meta(): read meta_, never throw
Impl_type(h) == h.meta_.type

Impl_encrypted(h) == h.meta_.encrypted

Impl_meta(h) == h.meta_

\* impl_->decrypted()
Impl_decrypted(h, fault) ==
    IF h.impl = "Impl" THEN Result(FALSE, FALSE, h, <<>>)
    ELSE Query(isDecrypted(h.document_), h, fault)

\* impl_->canTranslate()
Impl_canTranslate(h, fault) ==
    IF h.impl = "Impl" THEN Result(FALSE, FALSE, h, <<>>)
    ELSE IF h.impl = "OpenDocumentImpl"
    THEN Query(OpenDocument_canHtml(h.document_), h, fault)
    ELSE Query(OfficeOpenXml_canHtml(h.document_), h, fault)

\* impl_->canEdit()
Impl_canEdit(h, fault) ==
    IF h.impl = "Impl" THEN Result(FALSE, FALSE, h, <<>>)
    ELSE Query(canEdit(h.document_), h, fault)

\* impl_->canSave(encrypted)
Impl_canSave(h, encrypted, fault) ==
    IF h.impl = "Impl" THEN Result(FALSE, FALSE, h, <<>>)
    ELSE Query(canSaveDoc(h.document_, encrypted), h, fault)

\* OpenDocumentImpl::decrypt
OpenDocumentImpl_decrypt(h, password, fault) ==
    LET r == OpenDocument_decrypt(h.document_, password, fault)
    IN  IF r.raised THEN Result(TRUE, FALSE, h, r.log)
        ELSE IF r.value
        THEN Result(FALSE, TRUE,
                    Handle(h.impl, OpenDocument_getMeta(r.d), r.d), r.log)
        ELSE Result(FALSE, FALSE, Handle(h.impl, h.meta_, r.d), r.log)

\* OfficeOpenXmlImpl::decrypt clearing the encrypted flag before it knows
\* the result
OfficeOpenXmlImpl_decrypt_eager(h, password, fault) ==
    LET r == OfficeOpenXml_decrypt(h.document_, password, fault)
        m == [h.meta_ EXCEPT !.encrypted = FALSE]
    IN  IF r.raised THEN Result(TRUE, FALSE, Handle(h.impl, m, h.document_),
                                r.log)
        ELSE IF r.value
        THEN Result(FALSE, TRUE,
                    Handle(h.impl, OfficeOpenXml_getMeta(r.d), r.d), r.log)
        ELSE Result(FALSE, FALSE, Handle(h.impl, m, r.d), r.log)

\* OfficeOpenXmlImpl::decrypt
OfficeOpenXmlImpl_decrypt(h, password, fault) ==
    LET r == OfficeOpenXml_decrypt(h.document_, password, fault)
    IN  IF r.raised THEN Result(TRUE, FALSE, h, r.log)
        ELSE IF r.value
        THEN Result(FALSE, TRUE,
                    Handle(h.impl, OfficeOpenXml_getMeta(r.d), r.d), r.log)
        ELSE Result(FALSE, FALSE, Handle(h.impl, h.meta_, r.d), r.log)

\* impl_->decrypt(password)
Impl_decrypt(h, password, fault) ==
    IF h.impl = "Impl" THEN Result(FALSE, FALSE, h, <<>>)
    ELSE IF h.impl = "OpenDocumentImpl"
    THEN OpenDocumentImpl_decrypt(h, password, fault)
    ELSE OfficeOpenXmlImpl_decrypt(h, password, fault)

\* translate answering true on the base class
Impl_translate_baseTrue(h, fault) == Result(FALSE, TRUE, h, <<>>)

\* impl_->translate(path, config)
Impl_translate(h, fault) ==
    IF h.impl = "Impl" THEN Result(FALSE, FALSE, h, <<>>)
    ELSE LET can == IF h.impl = "OpenDocumentImpl"
                    THEN OpenDocument_canHtml(h.document_)
                    ELSE OfficeOpenXml_canHtml(h.document_)
             r == html(h.document_, can, fault)
         IN  Result(r.raised, r.value, Handle(h.impl, h.meta_, r.d), <<>>)

\* impl_->edit(diff)
Impl_edit(h, fault) ==
    IF h.impl = "Impl" THEN Result(FALSE, FALSE, h, <<>>)
    ELSE LET r == edit(h.document_, fault)
         IN  Result(r.raised, r.value, Handle(h.impl, h.meta_, r.d), <<>>)

\* save leaving a moved-from meta_ behind
Impl_save_dropsMeta(h, fault) ==
    Result(FALSE, FALSE, Handle(h.impl, DefaultMeta, h.document_), <<>>)

\* impl_->save(path) and impl_->save(path, password)
Impl_save(h, fault) ==
    IF h.impl = "Impl" THEN Result(FALSE, FALSE, h, <<>>)
    ELSE LET r == save(h.document_, fault)
         IN  Result(r.raised, r.value, Handle(h.impl, h.meta_, r.d), <<>>)


(***************************************************************************)
(* openImpl(path): the detector.  Its outcome is the handle it returns or  *)
(* the exception it throws; tried lists the probes it ran, in order, and   *)
(* meta is the detector's local FileMeta when it returns or gives up.      *)
(***************************************************************************)
Opened(h, tried, meta) ==
    [ok |-> TRUE, h |-> h, exc |-> "none", tried |-> tried, meta |-> meta]

Thrown(exc, tried, meta) ==
    [ok |-> FALSE, h |-> NullHandle, exc |-> exc, tried |-> tried,
     meta |-> meta]

\* openImplCfb with the "Workbook" stream looked for before the two others
openImplCfb_workbookFirst(f, before) ==
    LET cfb == CfbReader(f)
        ooxml == OfficeOpenXmlImpl(f)
        word == FileMeta("LEGACY_WORD_DOCUMENT", FALSE, <<>>)
        ppt == FileMeta("LEGACY_POWERPOINT_PRESENTATION", FALSE, <<>>)
        xls == FileMeta("LEGACY_EXCEL_WORKSHEETS", FALSE, <<>>)
        t == before \o <<"CfbReader", "Workbook", "WordDocument",
                          "PowerPoint Document", "OfficeOpenXmlImpl">>
    IN  IF ~cfb.ok THEN Thrown("UnknownFileType", t, DefaultMeta)
        ELSE IF isFile(f, "Workbook") THEN Opened(Impl(xls), t, xls)
        ELSE IF isFile(f, "WordDocument") THEN Opened(Impl(word), t, word)
        ELSE IF isFile(f, "PowerPoint Document") THEN Opened(Impl(ppt), t, ppt)
        ELSE IF ooxml.ok THEN Opened(ooxml.h, t, DefaultMeta)
        ELSE Thrown("UnknownFileType", t, DefaultMeta)

\* openImplCfb ending in a default-constructed Impl where it should throw
openImplCfb_defaultImpl(f, before) ==
    LET r == openImplCfb_workbookFirst(f, before)
    IN  IF CfbReader(f).ok THEN r
        ELSE Opened(Impl(DefaultMeta), r.tried, DefaultMeta)

\* the second half of openImpl: the CFB probes, after the probes in before
openImplCfb(f, before) ==
    LET cfb == CfbReader(f)
        ooxml == OfficeOpenXmlImpl(f)
        word == FileMeta("LEGACY_WORD_DOCUMENT", FALSE, <<>>)
        ppt == FileMeta("LEGACY_POWERPOINT_PRESENTATION", FALSE, <<>>)
        xls == FileMeta("LEGACY_EXCEL_WORKSHEETS", FALSE, <<>>)
        generic == FileMeta("COMPOUND_FILE_BINARY_FORMAT",
                            isFile(f, "EncryptionInfo")
                                /\ isFile(f, "EncryptedPackage"), <<>>)
        t1 == before \o <<"CfbReader">>
        t2 == t1 \o <<"WordDocument">>
        t3 == t2 \o <<"PowerPoint Document">>
        t4 == t3 \o <<"Workbook">>
        t5 == t4 \o <<"OfficeOpenXmlImpl">>
    IN  IF ~cfb.ok THEN Thrown("UnknownFileType", t1, DefaultMeta)
        ELSE IF isFile(f, "WordDocument") THEN Opened(Impl(word), t2, word)
        ELSE IF isFile(f, "PowerPoint Document") THEN Opened(Impl(ppt), t3, ppt)
        ELSE IF isFile(f, "Workbook") THEN Opened(Impl(xls), t4, xls)
        ELSE IF ooxml.ok THEN Opened(ooxml.h, t5, generic)
        ELSE Thrown("UnknownFileType", t5, generic)

openImpl(f) ==
    LET zip == ZipReader(f)
        odf == OpenDocumentImpl(f)
        ooxml == OfficeOpenXmlImpl(f)
        t1 == <<"ZipReader">>
        t2 == t1 \o <<"OpenDocumentImpl">>
        t3 == t2 \o <<"OfficeOpenXmlImpl">>
    IN  IF ~zip.ok THEN openImplCfb(f, t1)
        ELSE IF odf.ok THEN Opened(odf.h, t2, DefaultMeta)
        ELSE IF ooxml.ok THEN Opened(ooxml.h, t3, DefaultMeta)
        ELSE openImplCfb(f, t3)

(***************************************************************************)
(* The facade: the public operations of Document.  Each returns what the   *)
(* caller sees: escaped (an exception left the operation), failed (the     *)
(* implementation threw), the value, and the handle afterwards.            *)
(***************************************************************************)
Seen(escaped, failed, value, h, log) ==
    [escaped |-> escaped, failed |-> failed, value |-> value, h |-> h,
     log |-> log]

\* a bool operation without its try block
Uncaught(r) == Seen(r.raised, r.raised, r.value, r.d, r.log)

\* the catch (...) of a bool operation: log and return false
Caught(r) == Seen(FALSE, r.raised, IF r.raised THEN FALSE ELSE r.value, r.d, r.log)

\* Document::open(path): the Document, or nullptr
Document_open(f) ==
    LET r == openImpl(f)
    IN  [escaped |-> FALSE, failed |-> ~r.ok,
         h |-> IF r.ok THEN r.h ELSE NullHandle, r |-> r]

\* Document::readType(path)
Document_readType(f) ==
    LET r == openImpl(f)
    IN  [escaped |-> FALSE, failed |-> ~r.ok,
         type |-> IF r.ok THEN Impl_type(r.h) ELSE "UNKNOWN", r |-> r]

\* Document::readMeta(path)
Document_readMeta(f) ==
    LET r == openImpl(f)
    IN  [escaped |-> FALSE, failed |-> ~r.ok,
         meta |-> IF r.ok THEN Impl_meta(r.h) ELSE DefaultMeta, r |-> r]

\* Document::type(), encrypted(), meta(): Impl's readers never throw, so
\* the catch branches are not taken
Document_type(h) == Impl_type(h)

Document_encrypted(h) == Impl_encrypted(h)

Document_meta(h) == Impl_meta(h)

Document_decrypted(h, fault) == Caught(Impl_decrypted(h, fault))

Document_canTranslate(h, fault) == Caught(Impl_canTranslate(h, fault))

Document_canEdit(h, fault) == Caught(Impl_canEdit(h, fault))

\* Document::canSave(encrypted); canSave() is canSave(false)
Document_canSave(h, encrypted, fault) ==
    Caught(Impl_canSave(h, encrypted, fault))

Document_decrypt(h, password, fault) ==
    Caught(Impl_decrypt(h, password, fault))

Document_translate(h, fault) == Caught(Impl_translate(h, fault))

Document_edit(h, fault) == Caught(Impl_edit(h, fault))

\* Document::save(path) and save(path, password)
Document_save(h, fault) == Caught(Impl_save(h, fault))


(***************************************************************************)
(* The caller: any sequence of facade calls.  The model follows one        *)
(* Document at a time: open, any calls on it, then its destruction.  The   *)
(* static readers touch no Document and are called between two of them.    *)
(***************************************************************************)
NoFile == File("other", "none", {}, FALSE, "none", 1, FALSE)

NoCall ==
    [op |-> "none", file |-> NoFile, password |-> 1, fault |-> FALSE,
     escaped |-> FALSE, failed |-> FALSE, value |-> FALSE,
     type |-> "UNKNOWN", meta |-> DefaultMeta, exc |-> "none",
     tried |-> <<>>, detected |-> DefaultMeta, log |-> <<>>,
     before |-> NullHandle]

\* a call on the handle held, with a bool result
Returned(op, password, fault, s) ==
    [NoCall EXCEPT !.op = op, !.password = password, !.fault = fault,
                   !.escaped = s.escaped, !.failed = s.failed,
                   !.value = s.value, !.log = s.log, !.before = handle]

IdleProtocol == [pc |-> "idle"]

IdleTranslator == [pc |-> "idle"]

IdleResolver == [pc |-> "idle"]

Init ==
    /\ handle = NullHandle
    /\ last = NoCall
    /\ failures = 0
    /\ pr = IdleProtocol
    /\ tr = IdleTranslator
    /\ st = IdleResolver

Open(f) ==
    LET s == Document_open(f)
    IN  /\ handle = NullHandle
        /\ handle' = s.h
        /\ last' = [NoCall EXCEPT !.op = "open", !.file = f,
                                  !.escaped = s.escaped, !.failed = s.failed,
                                  !.value = s.r.ok, !.exc = s.r.exc,
                                  !.tried = s.r.tried, !.detected = s.r.meta,
                                  !.before = handle]
        /\ failures' = 0
        /\ UNCHANGED <<pr, tr, st>>

ReadType(f) ==
    LET s == Document_readType(f)
    IN  /\ handle = NullHandle
        /\ last' = [NoCall EXCEPT !.op = "readType", !.file = f,
                                  !.escaped = s.escaped, !.failed = s.failed,
                                  !.type = s.type, !.exc = s.r.exc,
                                  !.tried = s.r.tried, !.detected = s.r.meta,
                                  !.before = handle]
        /\ UNCHANGED <<handle, failures, pr, tr, st>>

ReadMeta(f) ==
    LET s == Document_readMeta(f)
    IN  /\ handle = NullHandle
        /\ last' = [NoCall EXCEPT !.op = "readMeta", !.file = f,
                                  !.escaped = s.escaped, !.failed = s.failed,
                                  !.meta = s.meta, !.exc = s.r.exc,
                                  !.tried = s.r.tried, !.detected = s.r.meta,
                                  !.before = handle]
        /\ UNCHANGED <<handle, failures, pr, tr, st>>

Type ==
    /\ handle # NullHandle
    /\ last' = [NoCall EXCEPT !.op = "type", !.type = Document_type(handle),
                              !.before = handle]
    /\ UNCHANGED <<handle, failures, pr, tr, st>>

Encrypted ==
    /\ handle # NullHandle
    /\ last' = [NoCall EXCEPT !.op = "encrypted",
                              !.value = Document_encrypted(handle),
                              !.before = handle]
    /\ UNCHANGED <<handle, failures, pr, tr, st>>

Meta ==
    /\ handle # NullHandle
    /\ last' = [NoCall EXCEPT !.op = "meta", !.meta = Document_meta(handle),
                              !.before = handle]
    /\ UNCHANGED <<handle, failures, pr, tr, st>>

Decrypted(fault) ==
    LET s == Document_decrypted(handle, fault)
    IN  /\ handle # NullHandle
        /\ handle' = s.h
        /\ last' = Returned("decrypted", 1, fault, s)
        /\ UNCHANGED <<failures, pr, tr, st>>

CanTranslate(fault) ==
    LET s == Document_canTranslate(handle, fault)
    IN  /\ handle # NullHandle
        /\ handle' = s.h
        /\ last' = Returned("canTranslate", 1, fault, s)
        /\ UNCHANGED <<failures, pr, tr, st>>

CanEdit(fault) ==
    LET s == Document_canEdit(handle, fault)
    IN  /\ handle # NullHandle
        /\ handle' = s.h
        /\ last' = Returned("canEdit", 1, fault, s)
        /\ UNCHANGED <<failures, pr, tr, st>>

CanSave(encrypted, fault) ==
    LET s == Document_canSave(handle, encrypted, fault)
    IN  /\ handle # NullHandle
        /\ handle' = s.h
        /\ last' = Returned("canSave", 1, fault, s)
        /\ UNCHANGED <<failures, pr, tr, st>>

Decrypt(password, fault) ==
    LET s == Document_decrypt(handle, password, fault)
    IN  /\ handle # NullHandle
        /\ failures < MaxAttempts
        /\ handle' = s.h
        /\ last' = Returned("decrypt", password, fault, s)
        /\ failures' = IF s.value THEN failures ELSE failures + 1
        /\ UNCHANGED <<pr, tr, st>>

Translate(fault) ==
    LET s == Document_translate(handle, fault)
    IN  /\ handle # NullHandle
        /\ handle' = s.h
        /\ last' = Returned("translate", 1, fault, s)
        /\ UNCHANGED <<failures, pr, tr, st>>

Edit(fault) ==
    LET s == Document_edit(handle, fault)
    IN  /\ handle # NullHandle
        /\ handle' = s.h
        /\ last' = Returned("edit", 1, fault, s)
        /\ UNCHANGED <<failures, pr, tr, st>>

Save(fault) ==
    LET s == Document_save(handle, fault)
    IN  /\ handle # NullHandle
        /\ handle' = s.h
        /\ last' = Returned("save", 1, fault, s)
        /\ UNCHANGED <<failures, pr, tr, st>>

\* ~Document()
Close ==
    /\ handle # NullHandle
    /\ handle' = NullHandle
    /\ last' = [NoCall EXCEPT !.op = "close"]
    /\ failures' = 0
    /\ UNCHANGED <<pr, tr, st>>

Next ==
    \/ \E f \in Files : Open(f)
    \/ \E f \in Files : ReadType(f)
    \/ \E f \in Files : ReadMeta(f)
    \/ Type
    \/ Encrypted
    \/ Meta
    \/ \E fault \in BOOLEAN : Decrypted(fault)
    \/ \E fault \in BOOLEAN : CanTranslate(fault)
    \/ \E fault \in BOOLEAN : CanEdit(fault)
    \/ \E encrypted \in BOOLEAN, fault \in BOOLEAN : CanSave(encrypted, fault)
    \/ \E password \in Passwords, fault \in BOOLEAN : Decrypt(password, fault)
    \/ \E fault \in BOOLEAN : Translate(fault)
    \/ \E fault \in BOOLEAN : Edit(fault)
    \/ \E fault \in BOOLEAN : Save(fault)
    \/ Close

Spec == Init /\ [][Next]_vars


(***************************************************************************)
(* Claims about the detector and the facade.                               *)
(***************************************************************************)
DetectOps == {"open", "readType", "readMeta"}

BoolOps ==
    {"decrypted", "canTranslate", "canEdit", "canSave", "decrypt",
     "translate", "edit", "save"}

\* the six probes in their priority order: whether probe i recognises f,
\* and the class and type of the handle it builds
Recognises(i, f) ==
    CASE i = 1 -> f.container = "zip" /\ OpenDocument(f).ok
      [] i = 2 -> f.container = "zip" /\ OfficeOpenXml(f).ok
      [] i = 3 -> f.container = "cfb" /\ "WordDocument" \in f.streams
      [] i = 4 -> f.container = "cfb" /\ "PowerPoint Document" \in f.streams
      [] i = 5 -> f.container = "cfb" /\ "Workbook" \in f.streams
      [] i = 6 -> f.container = "cfb" /\ OfficeOpenXml(f).ok

ProbeImpl(i) ==
    CASE i = 1 -> "OpenDocumentImpl"
      [] i \in {2, 6} -> "OfficeOpenXmlImpl"
      [] i \in {3, 4, 5} -> "Impl"

ProbeType(i, f) ==
    CASE i = 1 -> f.content
      [] i = 2 -> "OOXML"
      [] i = 3 -> "LEGACY_WORD_DOCUMENT"
      [] i = 4 -> "LEGACY_POWERPOINT_PRESENTATION"
      [] i = 5 -> "LEGACY_EXCEL_WORKSHEETS"
      [] i = 6 -> "COMPOUND_FILE_BINARY_FORMAT"

Matching(f) == {i \in 1..6 : Recognises(i, f)}

FirstMatch(f) == CHOOSE i \in Matching(f) : \A j \in Matching(f) : i <= j

\* C1: detection returns the handle of the first probe that recognises the
\* file, in the order ODF-in-ZIP, OOXML-in-ZIP, WordDocument, PowerPoint
\* Document, Workbook, generic CFB; a probe that fails only hands over to the
\* next one, so the only failure is UnknownFileType, when no probe matches.
C1_FirstProbeWins ==
    last.op \in DetectOps =>
        /\ last.exc \in {"none", "UnknownFileType"}
        /\ last.failed <=> Matching(last.file) = {}
        /\ last.failed <=> last.exc = "UnknownFileType"
        /\ (last.op = "open" /\ ~last.failed) =>
               /\ handle.impl = ProbeImpl(FirstMatch(last.file))
               /\ handle.meta_.type = ProbeType(FirstMatch(last.file), last.file)
        /\ (last.op = "readType" /\ ~last.failed) =>
               last.type = ProbeType(FirstMatch(last.file), last.file)

\* a CFB container with the Word and the Excel stream opens as LegacyWord
C1_Witness ==
    /\ last.op = "open"
    /\ {"WordDocument", "Workbook"} \subseteq last.file.streams
    /\ handle.meta_.type = "LEGACY_WORD_DOCUMENT"
    /\ last.tried = <<"ZipReader", "CfbReader", "WordDocument">>

Unrecognised(f) ==
    /\ ~(f.container = "zip" /\ f.content \in OdfKinds \cup {"OOXML"})
    /\ f.container # "cfb"

\* C2: on an input that is neither a ZIP holding ODF or OOXML nor a CFB
\* container, detection throws UnknownFileType: open returns no Document,
\* readType returns UNKNOWN and readMeta a default FileMeta.
C2_UnknownFormat ==
    (last.op \in DetectOps /\ Unrecognised(last.file)) =>
        /\ last.exc = "UnknownFileType"
        /\ ~last.escaped
        /\ last.op = "open" => handle = NullHandle
        /\ last.op = "readType" => last.type = "UNKNOWN"
        /\ last.op = "readMeta" => last.meta = DefaultMeta

\* a ZIP holding neither package went through every probe and was refused
C2_Witness ==
    /\ last.op = "open"
    /\ last.file.container = "zip"
    /\ last.file.content = "none"
    /\ last.tried = <<"ZipReader", "OpenDocumentImpl", "OfficeOpenXmlImpl",
                      "CfbReader">>
    /\ handle = NullHandle

\* C3: no public operation lets a failure of the implementation out: it
\* returns false, UNKNOWN, no Document or a default FileMeta instead.
C3_NothingEscapes ==
    /\ ~last.escaped
    /\ last.failed =>
           /\ last.op \in BoolOps => ~last.value
           /\ last.op = "open" => handle = NullHandle
           /\ last.op = "readType" => last.type = "UNKNOWN"
           /\ last.op = "readMeta" => last.meta = DefaultMeta

\* the document's translation threw and translate returned false
C3_Witness ==
    /\ last.op = "translate"
    /\ last.fault
    /\ last.failed
    /\ ~last.value

Legacy(h) == h.impl = "Impl" /\ h.meta_.type \in LegacyTypes

\* C4: on a handle detected as a legacy format the capability queries and
\* decrypted return false, and decrypt, translate, edit and save return
\* false and leave the handle, its type and its encrypted flag as they were.
C4_LegacyDetectionOnly ==
    /\ handle.impl = "Impl" => Legacy(handle)
    /\ (last.op \in BoolOps /\ Legacy(last.before)) =>
           /\ ~last.value
           /\ handle = last.before
           /\ Document_type(handle) = Document_type(last.before)
           /\ Document_encrypted(handle) = Document_encrypted(last.before)

\* translate on a legacy Excel handle, after a decrypt that had failed on it
C4_Witness ==
    /\ last.op = "translate"
    /\ Legacy(last.before)
    /\ last.before.meta_.type = "LEGACY_EXCEL_WORKSHEETS"
    /\ failures > 0
    /\ ~last.value


Decryptable(h) == h.impl \in {"OpenDocumentImpl", "OfficeOpenXmlImpl"}

\* how often step occurs in a decrypt attempt's log
Count(log, step) == Cardinality({i \in 1..Len(log) : log[i] = step})

\* C6: a decrypt that returns false on an encrypted ODF or OOXML handle
\* leaves the handle, its meta and decrypted() as they were; whatever went
\* before, a decrypt with the password that verifies (and no fatal failure
\* of the attempt) returns true; one call verifies at most once.
C6_FailedDecryptRecoverable ==
    (last.op = "decrypt" /\ Decryptable(last.before)
        /\ Document_encrypted(last.before)) =>
        /\ ~last.value =>
               /\ Document_meta(handle) = Document_meta(last.before)
               /\ Document_decrypted(handle, FALSE).value
                      = Document_decrypted(last.before, FALSE).value
               /\ handle = last.before
        /\ (last.password = last.before.document_.key /\ ~last.fault) =>
               last.value
        /\ Count(last.log, "verify") <= 1

\* the right password succeeded after an attempt that had failed
C6_Witness ==
    /\ last.op = "decrypt"
    /\ Decryptable(last.before)
    /\ Document_encrypted(last.before)
    /\ failures > 0
    /\ last.value
    /\ Document_decrypted(handle, FALSE).value

\* the ZIP an encrypted package decrypts to
InnerPackage(d) == File("zip", d.inner, {}, FALSE, "none", 1, FALSE)

EncryptedCfb(h) ==
    /\ h.impl = "OfficeOpenXmlImpl"
    /\ h.document_.storage = "cfb"
    /\ h.document_.pair

\* C7: a CFB package with the "EncryptionInfo"/"EncryptedPackage" pair opens
\* as an encrypted handle, and once decrypt has returned true the handle's
\* meta is what detection yields on the decrypted ZIP (not encrypted, the
\* inner OOXML or ODF kind) and canTranslate() is true.
C7_RedetectedAfterDecrypt ==
    /\ (last.op = "open" /\ ~last.failed /\ EncryptedCfb(handle)) =>
           Document_encrypted(handle)
    /\ (last.op = "decrypt" /\ EncryptedCfb(last.before) /\ last.value) =>
           /\ openImpl(InnerPackage(last.before.document_)).ok
           /\ Document_meta(handle)
                  = Impl_meta(openImpl(InnerPackage(last.before.document_)).h)
           /\ ~Document_encrypted(handle)
           /\ Document_type(handle) = last.before.document_.inner
           /\ Document_canTranslate(handle, FALSE).value

MetaReaders == {"type", "encrypted", "meta"}

\* C8: the queries and translate, edit and save leave the handle's FileMeta
\* as it was; only a decrypt that returns true changes it.
C8_MetaChangedOnlyByDecrypt ==
    (last.op \in BoolOps \cup MetaReaders
        /\ Document_meta(handle) # Document_meta(last.before)) =>
        (last.op = "decrypt" /\ last.value)

\* save on a decrypted document: the meta is the one decrypt derived
C8_Witness ==
    /\ last.op = "save"
    /\ handle.document_.decrypted
    /\ Document_meta(handle) = Document_meta(last.before)
    /\ ~Document_encrypted(handle)


(***************************************************************************)
(* OfficeOpenXmlImpl::decrypt_, statement by statement.  pr is the object  *)
(* and the position of a call in it:                                       *)
(*   pc                : the line the call is at; "ready" before a call,   *)
(*                       "done" after a return, "thrown" after a throw     *)
(*   storage_, document_, meta_ : the members                              *)
(*   password, key     : the argument and the key derived from it (0: not  *)
(*                       yet)                                              *)
(*   verified          : what util.verify(key) answered in this call       *)
(*   plaintext         : decryptedPackage ("none": not produced)           *)
(*   events            : the streams read and the steps taken by this call *)
(*   ret               : what the call returned                            *)
(*   entry             : storage_ and document_ when the call began        *)
(*   calls             : calls made on the object                          *)
(* storage_ is taken to hold the CFB storage the object was built over.    *)
(***************************************************************************)
EncryptedPackages ==
    {f \in CfbGenericFiles : EncryptionStreams \subseteq f.streams /\ ~f.broken}

\* decrypt_ verifying only after the package has been decrypted
decrypt_verifyLast(pc, ok) ==
    CASE pc = "L94" -> IF ok THEN "L96" ELSE "thrown"
      [] pc = "L96" -> "L100"
      [] pc = "L100" -> IF ok THEN "L102" ELSE "thrown"
      [] pc = "L102" -> "L98"
      [] pc = "L98" -> IF ok THEN "L103" ELSE "L99"
      [] pc = "L99" -> "done"
      [] pc = "L103" -> "L104"
      [] pc = "L104" -> IF ok THEN "L105" ELSE "thrown"
      [] pc = "L105" -> "L106"
      [] pc = "L106" -> "done"

\* the control flow of decrypt_: the line after pc, given that the
\* statement at pc went through (ok) or threw / answered false (~ok)
decrypt_(pc, ok) ==
    CASE pc = "L94" -> IF ok THEN "L96" ELSE "thrown"
      [] pc = "L96" -> "L98"
      [] pc = "L98" -> IF ok THEN "L100" ELSE "L99"
      [] pc = "L99" -> "done"
      [] pc = "L100" -> IF ok THEN "L102" ELSE "thrown"
      [] pc = "L102" -> "L103"
      [] pc = "L103" -> "L104"
      [] pc = "L104" -> IF ok THEN "L105" ELSE "thrown"
      [] pc = "L105" -> "L106"
      [] pc = "L106" -> "done"

\* crypto::CfbCrypto::Util::deriveKey and verify: the key stands for the
\* password it was derived from, and verifies when that is the right one
deriveKey(password) == password

verify(f, key) == key = f.password

\* util.decrypt(encryptedPackage, key): the raw ZIP inside
decrypt(f, key) == InnerPackage(f)

InitDecrypt ==
    /\ handle = NullHandle
    /\ last = NoCall
    /\ failures = 0
    /\ tr = IdleTranslator
    /\ st = IdleResolver
    /\ \E f \in EncryptedPackages :
          pr = [pc |-> "ready", storage_ |-> f,
                document_ |-> OfficeOpenXml(f).d,
                meta_ |-> OfficeOpenXml_getMeta(OfficeOpenXml(f).d),
                password |-> 1, key |-> 0, verified |-> "no",
                plaintext |-> "none", events |-> <<>>, ret |-> "none",
                entry |-> [storage_ |-> f, document_ |-> OfficeOpenXml(f).d],
                calls |-> 0]

\* a call of decrypt_(password)
CallDecrypt(password) ==
    /\ pr.pc \in {"ready", "done", "thrown"}
    /\ pr.calls < MaxAttempts
    /\ pr' = [pr EXCEPT !.pc = "L94", !.password = password, !.key = 0,
                        !.verified = "no", !.plaintext = "none",
                        !.events = <<>>, !.ret = "none",
                        !.entry = [storage_ |-> pr.storage_,
                                   document_ |-> pr.document_],
                        !.calls = @ + 1]
    /\ UNCHANGED <<handle, last, failures, tr, st>>

\* line 94-95: read "EncryptionInfo"
ReadEncryptionInfo ==
    /\ pr.pc = "L94"
    /\ LET ok == isFile(pr.storage_, "EncryptionInfo")
       IN  pr' = [pr EXCEPT !.pc = decrypt_("L94", ok),
                            !.events = Append(@, "EncryptionInfo"),
                            !.ret = IF ok THEN @ ELSE "thrown"]
    /\ UNCHANGED <<handle, last, failures, tr, st>>

\* line 96-97: util(encryptionInfo), key = util.deriveKey(password)
DeriveKey ==
    /\ pr.pc = "L96"
    /\ pr' = [pr EXCEPT !.pc = decrypt_("L96", TRUE),
                        !.key = deriveKey(pr.password),
                        !.events = Append(@, "deriveKey")]
    /\ UNCHANGED <<handle, last, failures, tr, st>>

\* line 98: if (!util.verify(key))
Verify ==
    /\ pr.pc = "L98"
    /\ LET ok == verify(pr.storage_, pr.key)
       IN  pr' = [pr EXCEPT !.pc = decrypt_("L98", ok),
                            !.verified = IF ok THEN "passed" ELSE "failed",
                            !.events = Append(@, "verify")]
    /\ UNCHANGED <<handle, last, failures, tr, st>>

\* line 99: return false
ReturnFalse ==
    /\ pr.pc = "L99"
    /\ pr' = [pr EXCEPT !.pc = decrypt_("L99", TRUE), !.ret = "false"]
    /\ UNCHANGED <<handle, last, failures, tr, st>>

\* line 100-101: read "EncryptedPackage"
ReadEncryptedPackage ==
    /\ pr.pc = "L100"
    /\ LET ok == isFile(pr.storage_, "EncryptedPackage")
       IN  pr' = [pr EXCEPT !.pc = decrypt_("L100", ok),
                            !.events = Append(@, "EncryptedPackage"),
                            !.ret = IF ok THEN @ ELSE "thrown"]
    /\ UNCHANGED <<handle, last, failures, tr, st>>

\* line 102: decryptedPackage = util.decrypt(encryptedPackage, key)
DecryptPackage ==
    /\ pr.pc = "L102"
    /\ pr' = [pr EXCEPT !.pc = decrypt_("L102", TRUE),
                        !.plaintext = decrypt(pr.storage_, pr.key).content,
                        !.events = Append(@, "decrypt")]
    /\ UNCHANGED <<handle, last, failures, tr, st>>

\* line 103: storage_ = ZipReader(decryptedPackage)
ReplaceStorage ==
    /\ pr.pc = "L103"
    /\ pr' = [pr EXCEPT !.pc = decrypt_("L103", TRUE),
                        !.storage_ = decrypt(pr.storage_, pr.key),
                        !.events = Append(@, "ZipReader")]
    /\ UNCHANGED <<handle, last, failures, tr, st>>

\* line 104: document_ = ooxml::OfficeOpenXml(storage_)
ReplaceDocument ==
    /\ pr.pc = "L104"
    /\ LET doc == OfficeOpenXml(pr.storage_)
       IN  pr' = [pr EXCEPT !.pc = decrypt_("L104", doc.ok),
                            !.document_ = IF doc.ok THEN doc.d ELSE @,
                            !.events = Append(@, "OfficeOpenXml"),
                            !.ret = IF doc.ok THEN @ ELSE "thrown"]
    /\ UNCHANGED <<handle, last, failures, tr, st>>

\* line 105: meta_ = document_.getMeta()
SetMeta ==
    /\ pr.pc = "L105"
    /\ pr' = [pr EXCEPT !.pc = decrypt_("L105", TRUE),
                        !.meta_ = OfficeOpenXml_getMeta(pr.document_)]
    /\ UNCHANGED <<handle, last, failures, tr, st>>

\* line 106: return true
ReturnTrue ==
    /\ pr.pc = "L106"
    /\ pr' = [pr EXCEPT !.pc = decrypt_("L106", TRUE), !.ret = "true"]
    /\ UNCHANGED <<handle, last, failures, tr, st>>

NextDecrypt ==
    \/ \E password \in Passwords : CallDecrypt(password)
    \/ ReadEncryptionInfo
    \/ DeriveKey
    \/ Verify
    \/ ReturnFalse
    \/ ReadEncryptedPackage
    \/ DecryptPackage
    \/ ReplaceStorage
    \/ ReplaceDocument
    \/ SetMeta
    \/ ReturnTrue

SpecDecrypt == InitDecrypt /\ [][NextDecrypt]_vars

\* C5: in the OOXML decrypt protocol the key is verified before any bulk
\* decryption: "EncryptedPackage" is read and decrypted only after verify
\* has passed, and a call whose verify fails returns false having read no
\* package, produced no plaintext and replaced neither storage nor document.
C5_VerifyBeforeBulkDecrypt ==
    /\ (Count(pr.events, "EncryptedPackage") > 0
            \/ Count(pr.events, "decrypt") > 0
            \/ pr.plaintext # "none") => pr.verified = "passed"
    /\ pr.verified = "failed" =>
           /\ pr.pc \in {"L99", "done"}
           /\ pr.pc = "done" => pr.ret = "false"
           /\ Count(pr.events, "EncryptedPackage") = 0
           /\ Count(pr.events, "decrypt") = 0
           /\ pr.plaintext = "none"
           /\ pr.storage_ = pr.entry.storage_
           /\ pr.document_ = pr.entry.document_

\* a call with a wrong password has returned false
C5_Witness ==
    /\ pr.pc = "done"
    /\ pr.verified = "failed"
    /\ pr.ret = "false"
    /\ pr.password # pr.storage_.password
    /\ pr.events = <<"EncryptionInfo", "deriveKey", "verify">>


(***************************************************************************)
(* XML (tinyxml2).  Character data (attribute values, text) is a sequence  *)
(* of one-character strings; element and attribute names are strings.     *)
(* Output is the sequence of the pieces written to the stream, character   *)
(* data written character by character.                                    *)
(***************************************************************************)
Attribute(name, value) == [name |-> name, value |-> value]

Element(name, attrs, children) ==
    [kind |-> "element", name |-> name, attrs |-> attrs,
     children |-> children, value |-> <<>>]

Text(value) ==
    [kind |-> "text", name |-> "", attrs |-> <<>>, children |-> <<>>,
     value |-> value]

\* a node that is neither text nor element
Comment ==
    [kind |-> "comment", name |-> "", attrs |-> <<>>, children |-> <<>>,
     value |-> <<>>]

\* XMLElement::FindAttribute: the first attribute of that name
HasAttribute(in, name) == \E i \in 1..Len(in.attrs) : in.attrs[i].name = name

FindAttribute(in, name) ==
    in.attrs[CHOOSE i \in 1..Len(in.attrs) :
                /\ in.attrs[i].name = name
                /\ \A j \in 1..(i - 1) : in.attrs[j].name # name].value

\* a std::unordered_map<std::string, std::list<std::string>>
EmptyMap == [k \in {} |-> <<>>]

\* map[key].push_back(value): operator[] makes the entry when it is missing
PushBack(map, key, value) ==
    [k \in DOMAIN map \cup {key} |->
        IF k = key
        THEN (IF key \in DOMAIN map THEN map[key] ELSE <<>>) \o <<value>>
        ELSE map[k]]

Reverse(seq) == [i \in 1..Len(seq) |-> seq[Len(seq) + 1 - i]]

(***************************************************************************)
(* The style resolver (odf/src/StyleTranslator.cpp).                       *)
(***************************************************************************)
IsPrefix(p, data) == Len(p) <= Len(data) /\ SubSeq(data, 1, Len(p)) = p

\* common::StringUtil::findAndReplaceAll: from the left, every occurrence
\* of toSearch is replaced and the search goes on behind the replacement
RECURSIVE findAndReplaceAll(_, _, _)
findAndReplaceAll(data, toSearch, replaceStr) ==
    IF data = <<>> \/ toSearch = <<>> THEN data
    ELSE IF IsPrefix(toSearch, data)
    THEN replaceStr
             \o findAndReplaceAll(SubSeq(data, Len(toSearch) + 1, Len(data)),
                                  toSearch, replaceStr)
    ELSE <<Head(data)>> \o findAndReplaceAll(Tail(data), toSearch, replaceStr)

\* the first "." replaced, the others left
escapeStyleName_firstOnly(name) ==
    IF \E i \in 1..Len(name) : name[i] = "."
    THEN LET first == CHOOSE i \in 1..Len(name) :
                          /\ name[i] = "."
                          /\ \A j \in 1..(i - 1) : name[j] # "."
         IN  [name EXCEPT ![first] = "_"]
    ELSE name

\* StyleTranslator::escapeStyleName: a copy with every "." replaced by "_"
escapeStyleName(name) == findAndReplaceAll(name, <<".">>, <<"_">>)

\* the substitution table of StylePropertiesTranslator ("": no entry)
substitution(property) ==
    CASE property = "fo:text-align" -> "text-align"
      [] property = "fo:font-size" -> "font-size"
      [] property = "fo:font-weight" -> "font-weight"
      [] property = "fo:font-style" -> "font-style"
      [] property = "fo:text-shadow" -> "text-shadow"
      [] property = "fo:color" -> "color"
      [] property = "fo:background-color" -> "background-color"
      [] property = "fo:page-width" -> "width"
      [] property = "fo:page-height" -> "height"
      [] property = "fo:margin-top" -> "margin-top"
      [] property = "fo:margin-right" -> "margin-right"
      [] property = "fo:margin-bottom" -> "margin-bottom"
      [] property = "fo:margin-left" -> "margin-left"
      [] property = "fo:padding" -> "padding"
      [] property = "fo:padding-top" -> "padding-top"
      [] property = "fo:padding-right" -> "padding-right"
      [] property = "fo:padding-bottom" -> "padding-bottom"
      [] property = "fo:padding-left" -> "padding-left"
      [] property = "fo:border" -> "border"
      [] property = "fo:border-top" -> "border-top"
      [] property = "fo:border-right" -> "border-right"
      [] property = "fo:border-bottom" -> "border-bottom"
      [] property = "fo:border-left" -> "border-left"
      [] property = "style:font-name" -> "font-family"
      [] property = "style:width" -> "width"
      [] property = "style:height" -> "height"
      [] property = "style:vertical-align" -> "vertical-align"
      [] property = "style:column-width" -> "width"
      [] property = "style:row-height" -> "height"
      [] OTHER -> ""

Solid == <<"s", "o", "l", "i", "d">>

\* StylePropertiesTranslator with the two decorations written whatever
\* their value
StylePropertiesTranslator_anyValue(a) ==
    IF substitution(a.name) # ""
    THEN <<substitution(a.name), ":">> \o a.value \o <<";">>
    ELSE IF a.name = "style:text-underline-style"
    THEN <<"text-decoration:underline;">>
    ELSE IF a.name = "style:text-line-through-style"
    THEN <<"text-decoration:line-through;">>
    ELSE <<>>

\* StylePropertiesTranslator(in, out): what one attribute writes
StylePropertiesTranslator(a) ==
    IF substitution(a.name) # ""
    THEN <<substitution(a.name), ":">> \o a.value \o <<";">>
    ELSE IF a.name = "style:text-underline-style"
    THEN (IF a.value = Solid THEN <<"text-decoration:underline;">> ELSE <<>>)
    ELSE IF a.name = "style:text-line-through-style"
    THEN (IF a.value = Solid THEN <<"text-decoration:line-through;">>
          ELSE <<>>)
    ELSE <<>>

RECURSIVE PropertiesOfAttributes(_)
PropertiesOfAttributes(attrs) ==
    IF attrs = <<>> THEN <<>>
    ELSE StylePropertiesTranslator(Head(attrs))
             \o PropertiesOfAttributes(Tail(attrs))

\* visitElementChildren / visitElementAttributes: every attribute of every
\* element child, in document order
RECURSIVE PropertiesOfChildren(_)
PropertiesOfChildren(children) ==
    IF children = <<>> THEN <<>>
    ELSE (IF Head(children).kind = "element"
          THEN PropertiesOfAttributes(Head(children).attrs)
          ELSE <<>>) \o PropertiesOfChildren(Tail(children))

\* the attribute that names the style ("": not a style element)
elementToNameAttr(element) ==
    CASE element = "style:default-style" -> "style:family"
      [] element = "style:style" -> "style:name"
      [] OTHER -> ""

\* StyleClassTranslator with the family recorded before the parent style
StyleClassTranslator_familyFirst(in, deps) ==
    LET nameAttr == elementToNameAttr(in.name)
        name == escapeStyleName(FindAttribute(in, nameAttr))
        d1 == IF HasAttribute(in, "style:family")
              THEN PushBack(deps, name,
                       escapeStyleName(FindAttribute(in, "style:family")))
              ELSE deps
        d2 == IF HasAttribute(in, "style:parent-style-name")
              THEN PushBack(d1, name,
                       escapeStyleName(
                           FindAttribute(in, "style:parent-style-name")))
              ELSE d1
    IN  IF nameAttr = "" \/ ~HasAttribute(in, nameAttr)
        THEN [deps |-> deps, out |-> <<>>]
        ELSE [deps |-> d2,
              out |-> <<".">> \o name \o <<".">> \o name \o <<" {">>
                          \o PropertiesOfChildren(in.children)
                          \o <<"}\n">>]

\* StyleClassTranslator(in, out, context): the dependencies it leaves and
\* what it writes
StyleClassTranslator(in, deps) ==
    LET nameAttr == elementToNameAttr(in.name)
        name == escapeStyleName(FindAttribute(in, nameAttr))
        d1 == IF HasAttribute(in, "style:parent-style-name")
              THEN PushBack(deps, name,
                       escapeStyleName(
                           FindAttribute(in, "style:parent-style-name")))
              ELSE deps
        d2 == IF HasAttribute(in, "style:family")
              THEN PushBack(d1, name,
                       escapeStyleName(FindAttribute(in, "style:family")))
              ELSE d1
    IN  IF nameAttr = "" \/ ~HasAttribute(in, nameAttr)
        THEN [deps |-> deps, out |-> <<>>]
        ELSE [deps |-> d2,
              out |-> <<".">> \o name \o <<".">> \o name \o <<" {">>
                          \o PropertiesOfChildren(in.children)
                          \o <<"}\n">>]


(***************************************************************************)
(* The styles the resolver is run on: the element children of a style      *)
(* tree, each one a style:style, a style:default-style or an element that  *)
(* is not a style, with or without its name, parent and family.            *)
(***************************************************************************)
StyleElementNames == {"style:style", "style:default-style", "text:list-style"}

StyleNames == {<<"S">>, <<"H", ".", "1">>}

ParentNames == {<<"P", ".", "0">>}

FamilyNames == {<<"t", "e", "x", "t">>}

Maybe(values) == {<<>>} \cup {<<v>> : v \in values}

AttributesOf(name, values) ==
    IF values = <<>> THEN <<>> ELSE <<Attribute(name, values[1])>>

StyleProperties ==
    {<<>>,
     <<Element("style:text-properties",
               <<Attribute("fo:font-size", <<"9">>),
                 Attribute("style:text-underline-style", Solid)>>,
               <<>>)>>}

StyleElements ==
    {Element(n,
             AttributesOf("style:name", s)
                 \o AttributesOf("style:parent-style-name", p)
                 \o AttributesOf("style:family", f),
             c) :
        n \in StyleElementNames, s \in Maybe(StyleNames),
        p \in Maybe(ParentNames), f \in Maybe(FamilyNames),
        c \in StyleProperties}

\* StyleTranslator::css has not visited a child yet
InitStyle ==
    /\ handle = NullHandle
    /\ last = NoCall
    /\ failures = 0
    /\ pr = IdleProtocol
    /\ tr = IdleTranslator
    /\ st = [pc |-> "css", deps |-> EmptyMap, before |-> EmptyMap,
             in |-> Comment, out |-> <<>>, count |-> 0]

\* StyleTranslator::css visits the next element child
VisitStyle(in) ==
    /\ st.pc = "css"
    /\ st.count < MaxStyles
    /\ st' = [pc |-> "css",
              deps |-> StyleClassTranslator(in, st.deps).deps,
              before |-> st.deps,
              in |-> in,
              out |-> StyleClassTranslator(in, st.deps).out,
              count |-> st.count + 1]
    /\ UNCHANGED <<handle, last, failures, pr, tr>>

\* StyleTranslator::css has no more children to visit
ReturnStyle ==
    /\ st.pc = "css"
    /\ st' = [st EXCEPT !.pc = "done"]
    /\ UNCHANGED <<handle, last, failures, pr, tr>>

NextStyle ==
    \/ \E in \in StyleElements : VisitStyle(in)
    \/ ReturnStyle

SpecStyle == InitStyle /\ [][NextStyle]_vars

\* what a named style with this parent and this family is to record
Recorded(in) ==
    (IF HasAttribute(in, "style:parent-style-name")
     THEN <<escapeStyleName(FindAttribute(in, "style:parent-style-name"))>>
     ELSE <<>>)
    \o (IF HasAttribute(in, "style:family")
        THEN <<escapeStyleName(FindAttribute(in, "style:family"))>>
        ELSE <<>>)

NamedStyle(in) == in.name = "style:style" /\ HasAttribute(in, "style:name")

\* C10: resolving a named style S from an empty map leaves, under the
\* escaped name of S, the escaped parent then the escaped family, and just
\* the one of them when only one is declared
C10_ParentThenFamily ==
    (st.count > 0 /\ NamedStyle(st.in) /\ st.before = EmptyMap
         /\ Recorded(st.in) # <<>>) =>
        LET S == escapeStyleName(FindAttribute(st.in, "style:name"))
        IN  /\ DOMAIN st.deps = {S}
            /\ st.deps[S] = Recorded(st.in)
            /\ (HasAttribute(st.in, "style:parent-style-name")
                    /\ HasAttribute(st.in, "style:family")) =>
                   st.deps[S] = <<<<"P", "_", "0">>, <<"t", "e", "x", "t">>>>

C10_Witness ==
    /\ st.count = 1
    /\ st.before = EmptyMap
    /\ NamedStyle(st.in)
    /\ FindAttribute(st.in, "style:name") = <<"H", ".", "1">>
    /\ <<"H", "_", "1">> \in DOMAIN st.deps
    /\ st.deps[<<"H", "_", "1">>] = <<<<"P", "_", "0">>, <<"t", "e", "x", "t">>>>


(***************************************************************************)
(* The content translator (src/ContentTranslator.cpp).                     *)
(***************************************************************************)
Rule(kind, name) == [kind |-> kind, name |-> name]

DroppedElements ==
    {"office:body", "office:text", "office:spreadsheet",
     "text:soft-page-break", "text:bookmark-end", "text:sequence-decls",
     "text:sequence-decl", "table:tracked-changes",
     "table:calculation-settings", "table:iteration"}

\* the names elementTranslator holds a translator for
TranslatedElements ==
    {"text:p", "text:h", "text:span", "text:a", "text:s", "text:tab",
     "text:line-break", "text:list", "text:list-item", "text:bookmark",
     "text:bookmark-start", "table:table", "table:table-column",
     "table:table-row", "table:table-cell"}

\* the element rule table with a span for every name it does not hold
ElementRule_unknownAsSpan(elementName) ==
    CASE elementName \in DroppedElements -> Rule("null", "")
      [] elementName = "text:p" -> Rule("default", "p")
      [] elementName = "text:a" -> Rule("link", "")
      [] elementName = "text:s" -> Rule("space", "")
      [] OTHER -> Rule("default", "span")

\* elementTranslator as the constructor fills it, and the lookup of
\* translate: "none" for a name without an entry, "null" for a nullptr
ElementRule(elementName) ==
    CASE elementName \in DroppedElements -> Rule("null", "")
      [] elementName = "text:p" -> Rule("default", "p")
      [] elementName = "text:h" -> Rule("default", "h")
      [] elementName = "text:span" -> Rule("default", "span")
      [] elementName = "text:a" -> Rule("link", "")
      [] elementName = "text:s" -> Rule("space", "")
      [] elementName = "text:tab" -> Rule("tab", "")
      [] elementName = "text:line-break" -> Rule("default", "br")
      [] elementName = "text:list" -> Rule("default", "ul")
      [] elementName = "text:list-item" -> Rule("default", "li")
      [] elementName = "text:bookmark" -> Rule("bookmark", "")
      [] elementName = "text:bookmark-start" -> Rule("bookmark", "")
      [] elementName = "table:table" -> Rule("table", "table")
      [] elementName = "table:table-column" -> Rule("table-column", "col")
      [] elementName = "table:table-row" -> Rule("table-row", "tr")
      [] elementName = "table:table-cell" -> Rule("table-cell", "td")
      [] OTHER -> Rule("none", "")

DefaultKinds ==
    {"default", "table", "table-column", "table-row", "table-cell"}

\* newAttributes of a DefaultElementTranslator
newAttributes(kind) ==
    IF kind = "table"
    THEN <<Attribute("border", "0"), Attribute("cellspacing", "0"),
           Attribute("cellpadding", "0")>>
    ELSE <<>>

\* attributeTranslator of a DefaultElementTranslator and of its subclasses
attributeTranslator(kind, attributeName) ==
    CASE attributeName \in {"text:style-name", "table:style-name"} ->
             Rule("style", "")
      [] kind = "table" /\ attributeName \in {"table:name", "table:print"} ->
             Rule("null", "")
      [] kind = "table-column"
             /\ attributeName \in {"table:default-cell-style-name",
                                   "table:number-columns-repeated"} ->
             Rule("null", "")
      [] kind = "table-row"
             /\ attributeName = "table:number-rows-repeated" ->
             Rule("null", "")
      [] kind = "table-cell"
             /\ attributeName \in {"table:formula",
                                   "table:number-columns-repeated",
                                   "office:value", "office:value-type",
                                   "office:string-value"} ->
             Rule("null", "")
      [] kind = "table-cell"
             /\ attributeName = "table:number-columns-spanned" ->
             Rule("default", "colspan")
      [] kind = "table-cell"
             /\ attributeName = "table:number-rows-spanned" ->
             Rule("default", "rowspan")
      [] OTHER -> Rule("none", "")

\* DefaultAttributeTranslator::translate
DefaultAttributeTranslator(name, a) ==
    <<" ", name, "=\"">> \o a.value \o <<"\"">>

\* the loop of StyleAttributeTranslator::translate over an already
\* reversed list
RECURSIVE ClassList(_)
ClassList(dependencies) ==
    IF dependencies = <<>> THEN <<>>
    ELSE Head(dependencies) \o <<" ">> \o ClassList(Tail(dependencies))

\* StyleAttributeTranslator::translate with the dependencies written in
\* the order they were recorded
StyleAttributeTranslator_inOrder(a, deps) ==
    IF a.value \notin DOMAIN deps THEN <<>>
    ELSE <<"class=\"">> \o ClassList(deps[a.value]) \o a.value \o <<"\"">>

\* StyleAttributeTranslator::translate
StyleAttributeTranslator(a, deps) ==
    IF a.value \notin DOMAIN deps THEN <<>>
    ELSE <<"class=\"">> \o ClassList(Reverse(deps[a.value]))
             \o a.value \o <<"\"">>

RECURSIVE WriteNewAttributes(_)
WriteNewAttributes(attrs) ==
    IF attrs = <<>> THEN <<>>
    ELSE <<" ", Head(attrs).name, "=\"", Head(attrs).value, "\"">>
             \o WriteNewAttributes(Tail(attrs))

\* the attribute loop of DefaultElementTranslator::translateStart
RECURSIVE WriteAttributes(_, _, _)
WriteAttributes(kind, attrs, deps) ==
    IF attrs = <<>> THEN <<>>
    ELSE LET a == Head(attrs)
             t == attributeTranslator(kind, a.name)
         IN  (IF t.kind \in {"none", "null"} THEN <<>>
              ELSE <<" ">> \o (IF t.kind = "style"
                               THEN StyleAttributeTranslator(a, deps)
                               ELSE DefaultAttributeTranslator(t.name, a)))
                 \o WriteAttributes(kind, Tail(attrs), deps)

\* DefaultElementTranslator::translateStart
DefaultElementTranslator_translateStart(rule, in, deps) ==
    <<"<", rule.name>> \o WriteNewAttributes(newAttributes(rule.kind))
        \o WriteAttributes(rule.kind, in.attrs, deps) \o <<">">>

\* DefaultElementTranslator::translateEnd
DefaultElementTranslator_translateEnd(rule) == <<"</", rule.name, ">">>


\* tinyxml2 reads a number as sscanf("%lld") does: blanks, a sign, then
\* the digits up to the first character that is not one
DigitChars == {"0", "1", "2", "3", "4", "5", "6", "7", "8", "9"}

DigitValue(c) ==
    CASE c = "0" -> 0 [] c = "1" -> 1 [] c = "2" -> 2 [] c = "3" -> 3
      [] c = "4" -> 4 [] c = "5" -> 5 [] c = "6" -> 6 [] c = "7" -> 7
      [] c = "8" -> 8 [] c = "9" -> 9

RECURSIVE ScanDigits(_, _, _)
ScanDigits(value, acc, any) ==
    IF value # <<>> /\ Head(value) \in DigitChars
    THEN ScanDigits(Tail(value), acc * 10 + DigitValue(Head(value)), TRUE)
    ELSE [ok |-> any, n |-> acc]

RECURSIVE ToInt64(_)
ToInt64(value) ==
    IF value # <<>> /\ Head(value) = " " THEN ToInt64(Tail(value))
    ELSE IF value # <<>> /\ Head(value) = "-"
    THEN [ok |-> ScanDigits(Tail(value), 0, FALSE).ok,
          n |-> 0 - ScanDigits(Tail(value), 0, FALSE).n]
    ELSE IF value # <<>> /\ Head(value) = "+"
    THEN ScanDigits(Tail(value), 0, FALSE)
    ELSE ScanDigits(value, 0, FALSE)

\* XMLElement::Int64Attribute(name, defaultValue)
Int64Attribute(in, name, defaultValue) ==
    IF HasAttribute(in, name) /\ ToInt64(FindAttribute(in, name)).ok
    THEN ToInt64(FindAttribute(in, name)).n
    ELSE defaultValue

\* SpaceTranslator::translateStart
SpaceTranslator_translateStart(in) ==
    LET count == Int64Attribute(in, "text:c", 0 - 1)
    IN  IF count <= 0 THEN <<>> ELSE [i \in 1..count |-> " "]

\* TabTranslator::translateStart
TabTranslator_translateStart == <<"\t">>

\* LinkTranslator::translateStart
LinkTranslator_translateStart(in) ==
    <<"<a">>
        \o (IF HasAttribute(in, "xlink:href")
            THEN LET href == FindAttribute(in, "xlink:href")
                 IN  <<" href\"">> \o href \o <<"\"">>
                         \o (IF Len(href) > 0 /\ href[1] = "#"
                             THEN <<" target\"_self\"">>
                             ELSE <<>>)
            ELSE <<>>)
        \o <<">">>

\* BookmarkTranslator::translateStart
BookmarkTranslator_translateStart(in) ==
    <<"<a">>
        \o (IF HasAttribute(in, "text:name")
            THEN <<" id=\"">> \o FindAttribute(in, "text:name") \o <<"\"">>
            ELSE <<>>)
        \o <<">">>

\* translator->translateStart(in, out, context), when there is a translator
translateStart(rule, in, deps) ==
    CASE rule.kind \in {"none", "null"} -> <<>>
      [] rule.kind \in DefaultKinds ->
             DefaultElementTranslator_translateStart(rule, in, deps)
      [] rule.kind = "space" -> SpaceTranslator_translateStart(in)
      [] rule.kind = "tab" -> TabTranslator_translateStart
      [] rule.kind = "link" -> LinkTranslator_translateStart(in)
      [] rule.kind = "bookmark" -> BookmarkTranslator_translateStart(in)

\* translateEnd with a link that is never closed
translateEnd_linkLeftOpen(rule, in) ==
    CASE rule.kind \in {"none", "null", "space", "tab", "link"} -> <<>>
      [] rule.kind \in DefaultKinds ->
             DefaultElementTranslator_translateEnd(rule)
      [] rule.kind = "bookmark" -> <<"</a>">>

\* translator->translateEnd(in, out, context), when there is a translator
translateEnd(rule, in) ==
    CASE rule.kind \in {"none", "null", "space", "tab"} -> <<>>
      [] rule.kind \in DefaultKinds ->
             DefaultElementTranslator_translateEnd(rule)
      [] rule.kind \in {"link", "bookmark"} -> <<"</a>">>

\* DefaultContentTranslatorImpl::translate: the start of the element, its
\* children in document order (text as it is, elements translated, any
\* other node skipped), the end of the element
RECURSIVE translate(_, _)
RECURSIVE translateChildren(_, _)
translate(in, deps) ==
    translateStart(ElementRule(in.name), in, deps)
        \o translateChildren(in.children, deps)
        \o translateEnd(ElementRule(in.name), in)

translateChildren(children, deps) ==
    IF children = <<>> THEN <<>>
    ELSE LET child == Head(children)
         IN  (CASE child.kind = "text" -> child.value
                [] child.kind = "element" -> translate(child, deps)
                [] OTHER -> <<>>)
                 \o translateChildren(Tail(children), deps)


(***************************************************************************)
(* The content trees the translator is run on: at most MaxNodes nodes, an  *)
(* element at the root, and below it elements of a few rules (no entry,    *)
(* dropped, paragraph with a style, link, whitespace run), text and        *)
(* comments.                                                               *)
(***************************************************************************)
ElementShapes ==
    {[name |-> "foo:bar", attrs |-> <<>>],
     [name |-> "office:text", attrs |-> <<>>],
     [name |-> "text:p",
      attrs |-> <<Attribute("text:style-name", <<"S">>)>>],
     [name |-> "text:a",
      attrs |-> <<Attribute("xlink:href", <<"#", "x">>)>>],
     [name |-> "text:s", attrs |-> <<Attribute("text:c", <<"2">>)>>]}

Leaves == {Text(<<"a">>), Text(<<"b">>), Comment}

RECURSIVE Nodes(_)
RECURSIVE NodesOfAll(_)
Nodes(node) == 1 + NodesOfAll(node.children)

NodesOfAll(nodes) ==
    IF nodes = <<>> THEN 0 ELSE Nodes(Head(nodes)) + NodesOfAll(Tail(nodes))

\* the element trees of at most n nodes, and the sequences of nodes of at
\* most n nodes in all
RECURSIVE Trees(_)
RECURSIVE Forests(_)
Trees(n) ==
    IF n = 0 THEN {}
    ELSE {Element(e.name, e.attrs, c) :
             e \in ElementShapes, c \in Forests(n - 1)}

Forests(n) ==
    IF n = 0 THEN {<<>>}
    ELSE {<<>>} \cup
         {f \in {<<t>> \o r : t \in Leaves \cup Trees(n), r \in Forests(n - 1)} :
             NodesOfAll(f) <= n}

\* StyleTranslator::css: StyleClassTranslator on every element child, in
\* document order, on one context and one output
RECURSIVE css(_, _)
css(children, deps) ==
    IF children = <<>> THEN [deps |-> deps, out |-> <<>>]
    ELSE IF Head(children).kind # "element" THEN css(Tail(children), deps)
    ELSE LET first == StyleClassTranslator(Head(children), deps)
             rest == css(Tail(children), first.deps)
         IN  [deps |-> rest.deps, out |-> first.out \o rest.out]

\* a named style with the parent P.0 and the family text
StyleNamed(name) ==
    Element("style:style",
            <<Attribute("style:name", name),
              Attribute("style:parent-style-name", <<"P", ".", "0">>),
              Attribute("style:family", <<"t", "e", "x", "t">>)>>,
            <<>>)

\* the context a translation runs in: the styles of the document and the
\* dependencies the resolver left for them
Context(styles) == [styles |-> styles, deps |-> css(styles, EmptyMap).deps]

\* no style at all, or a style S
ContentContexts == {Context(<<>>), Context(<<StyleNamed(<<"S">>)>>)}

\* what StyleAttributeTranslator::translate leaves of the dependencies when
\* it inserts the name it looks up (operator[] in the place of find)
StyleAttributeTranslator_inserts(a, deps) ==
    [k \in DOMAIN deps \cup {a.value} |->
        IF k \in DOMAIN deps THEN deps[k] ELSE <<>>]

\* what StyleAttributeTranslator::translate leaves of the dependencies: it
\* looks the name up with find and reads the entry
StyleAttributeTranslator_context(a, deps) == deps

\* the dependencies after the attribute loop of
\* DefaultElementTranslator::translateStart
RECURSIVE WriteAttributes_context(_, _, _)
WriteAttributes_context(kind, attrs, deps) ==
    IF attrs = <<>> THEN deps
    ELSE WriteAttributes_context(
             kind, Tail(attrs),
             IF attributeTranslator(kind, Head(attrs).name).kind = "style"
             THEN StyleAttributeTranslator_context(Head(attrs), deps)
             ELSE deps)

\* the dependencies after DefaultContentTranslatorImpl::translate: only the
\* start of a DefaultElementTranslator hands the context on
RECURSIVE translate_context(_, _)
RECURSIVE translateChildren_context(_, _)
translate_context(in, deps) ==
    translateChildren_context(
        in.children,
        IF ElementRule(in.name).kind \in DefaultKinds
        THEN WriteAttributes_context(ElementRule(in.name).kind, in.attrs, deps)
        ELSE deps)

translateChildren_context(children, deps) ==
    IF children = <<>> THEN deps
    ELSE translateChildren_context(
             Tail(children),
             IF Head(children).kind = "element"
             THEN translate_context(Head(children), deps)
             ELSE deps)

\* a translation about to run on a tree in a context
Ready(in, context) ==
    [pc |-> "ready", in |-> in, styles |-> context.styles,
     resolved |-> context.deps, deps |-> context.deps, out |-> <<>>]

InitContent ==
    /\ handle = NullHandle
    /\ last = NoCall
    /\ failures = 0
    /\ pr = IdleProtocol
    /\ st = IdleResolver
    /\ \E in \in Trees(MaxNodes), context \in ContentContexts :
          tr = Ready(in, context)

\* ContentTranslator::translate(in, out, context) on the root
TranslateContent ==
    /\ tr.pc = "ready"
    /\ tr' = [tr EXCEPT !.pc = "done",
                        !.out = translate(tr.in, tr.deps),
                        !.deps = translate_context(tr.in, tr.deps)]
    /\ UNCHANGED <<handle, last, failures, pr, st>>

NextContent == TranslateContent

SpecContent == InitContent /\ [][NextContent]_vars

\* an element without an entry in the rule table, or with the drop rule
PassedThrough(node) ==
    /\ node.kind = "element"
    /\ \/ node.name \notin TranslatedElements \cup DroppedElements
       \/ node.name \in DroppedElements

\* the elements of a tree, the root among them
RECURSIVE ElementsOf(_)
RECURSIVE ElementsOfAll(_)
ElementsOf(node) ==
    IF node.kind = "element" THEN {node} \cup ElementsOfAll(node.children)
    ELSE {}

ElementsOfAll(nodes) ==
    IF nodes = <<>> THEN {}
    ELSE ElementsOf(Head(nodes)) \cup ElementsOfAll(Tail(nodes))

\* the text of a tree in document order
RECURSIVE TextOf(_)
RECURSIVE TextOfAll(_)
TextOf(node) ==
    IF node.kind = "text" THEN node.value ELSE TextOfAll(node.children)

TextOfAll(nodes) ==
    IF nodes = <<>> THEN <<>>
    ELSE TextOf(Head(nodes)) \o TextOfAll(Tail(nodes))

\* what the children of an element contribute, one after the other
RECURSIVE Contributions(_, _)
Contributions(children, deps) ==
    IF children = <<>> THEN <<>>
    ELSE (IF Head(children).kind = "text" THEN Head(children).value
          ELSE IF Head(children).kind = "element"
          THEN translate(Head(children), deps)
          ELSE <<>>) \o Contributions(Tail(children), deps)

\* C9: an element without a rule, or with the drop rule, contributes what
\* its children contribute and no tag of its own: at the root the whole
\* output is that of the children, anywhere in the tree its translation is,
\* and a tree of nothing but such elements yields its text
C9_UnknownElementPassthrough ==
    tr.pc = "done" =>
        /\ PassedThrough(tr.in) =>
               tr.out = Contributions(tr.in.children, tr.deps)
        /\ \A e \in ElementsOf(tr.in) :
               PassedThrough(e) =>
                   translate(e, tr.deps) = Contributions(e.children, tr.deps)
        /\ (\A e \in ElementsOf(tr.in) : PassedThrough(e)) =>
               tr.out = TextOf(tr.in)

C9_Witness ==
    /\ tr.pc = "done"
    /\ tr.in.name = "foo:bar"
    /\ Len(tr.in.children) = 2
    /\ tr.in.children[1] = Text(<<"a">>)
    /\ tr.in.children[2].name = "text:a"
    /\ tr.out = <<"a">> \o translate(tr.in.children[2], tr.deps)
    /\ tr.out = <<"a", "<a", " href\"", "#", "x", "\"", " target\"_self\"",
                 ">", "</a>">>


(***************************************************************************)
(* StyleTranslator::escapeStyleName on its own: every name of at most      *)
(* MaxNameLen characters over a letter, the dot and the underscore, and    *)
(* the name "Heading.1"; the name is escaped, then its escape is.          *)
(***************************************************************************)
NameChars == {"a", ".", "_"}

RECURSIVE NamesOfLength(_)
NamesOfLength(n) ==
    IF n = 0 THEN {<<>>}
    ELSE {<<c>> \o r : c \in NameChars, r \in NamesOfLength(n - 1)}

Heading_dot_1 == <<"H", "e", "a", "d", "i", "n", "g", ".", "1">>

EscapedNames ==
    UNION {NamesOfLength(n) : n \in 0..MaxNameLen} \cup {Heading_dot_1}

InitEscape ==
    /\ handle = NullHandle
    /\ last = NoCall
    /\ failures = 0
    /\ pr = IdleProtocol
    /\ tr = IdleTranslator
    /\ \E name \in EscapedNames :
          st = [pc |-> "name", name |-> name, out |-> <<>>, again |-> <<>>]

\* escapeStyleName(name)
EscapeName ==
    /\ st.pc = "name"
    /\ st' = [st EXCEPT !.pc = "escaped", !.out = escapeStyleName(st.name)]
    /\ UNCHANGED <<handle, last, failures, pr, tr>>

\* escapeStyleName of what escapeStyleName returned
EscapeAgain ==
    /\ st.pc = "escaped"
    /\ st' = [st EXCEPT !.pc = "again", !.again = escapeStyleName(st.out)]
    /\ UNCHANGED <<handle, last, failures, pr, tr>>

NextEscape == EscapeName \/ EscapeAgain

SpecEscape == InitEscape /\ [][NextEscape]_vars

\* C11: the escape of a name is the name with "_" in the place of every
\* "." and everything else where it was; a name without "." is returned as
\* it is; escaping the escape changes nothing; "Heading.1" gives "Heading_1"
C11_EscapeIdempotent ==
    /\ st.pc \in {"escaped", "again"} =>
           /\ Len(st.out) = Len(st.name)
           /\ \A i \in 1..Len(st.name) :
                  st.out[i] = IF st.name[i] = "." THEN "_" ELSE st.name[i]
           /\ (\A i \in 1..Len(st.name) : st.name[i] # ".") =>
                  st.out = st.name
           /\ st.name = Heading_dot_1 =>
                  st.out = <<"H", "e", "a", "d", "i", "n", "g", "_", "1">>
    /\ st.pc = "again" => st.again = st.out

\* a name with two dots has been escaped twice
C11_Witness ==
    /\ st.pc = "again"
    /\ st.name = <<".", "a", ".">>
    /\ st.out = <<"_", "a", "_">>
    /\ st.again = st.out


(***************************************************************************)
(* The translator on one element at a time: a link, a whitespace run, a    *)
(* paragraph or a table cell with a style, a bookmark, a tab, an element   *)
(* without a rule; each with and without its attribute, with no child,     *)
(* a text child, or a text and an element child.                           *)
(***************************************************************************)
Hrefs == {<<"#", "x">>, <<"x">>, <<>>}

Counts == {<<"0">>, <<"1">>, <<"2">>, <<"-", "1">>, <<"x">>}

UsedStyleNames == {<<"S">>, <<"H", ".", "1">>, <<"U">>}

StyleBearing ==
    {<<"text:p", "text:style-name">>, <<"table:table-cell", "table:style-name">>}

SingleElements ==
    {Element("text:a", AttributesOf("xlink:href", h), <<>>) :
        h \in Maybe(Hrefs)}
    \cup {Element("text:s", AttributesOf("text:c", c), <<>>) :
             c \in Maybe(Counts)}
    \cup {Element(b[1], AttributesOf(b[2], n), <<>>) :
             b \in StyleBearing, n \in Maybe(UsedStyleNames)}
    \cup {Element("text:bookmark", <<Attribute("text:name", <<"b">>)>>, <<>>),
          Element("text:tab", <<>>, <<>>),
          Element("foo:bar", <<>>, <<>>)}

ChildLists ==
    {<<>>, <<Text(<<"a">>)>>,
     <<Text(<<"a">>), Element("text:tab", <<>>, <<>>)>>}

\* no style, a style S, or a style H.1
ElementContexts == ContentContexts \cup {Context(<<StyleNamed(<<"H", ".", "1">>)>>)}

InitElement ==
    /\ handle = NullHandle
    /\ last = NoCall
    /\ failures = 0
    /\ pr = IdleProtocol
    /\ st = IdleResolver
    /\ \E e \in SingleElements, c \in ChildLists, context \in ElementContexts :
          tr = Ready([e EXCEPT !.children = c], context)

SpecElement == InitElement /\ [][NextContent]_vars

\* the names the named styles of a style tree define
DefinedStyleNames(styles) ==
    {FindAttribute(styles[i], "style:name") :
        i \in {j \in 1..Len(styles) : NamedStyle(styles[j])}}

HasToken(out, token) == \E i \in 1..Len(out) : out[i] = token

\* the style an element names in its style-bearing attribute, if any
StyleUsed(in) ==
    {in.attrs[i].value :
        i \in {j \in 1..Len(in.attrs) :
                  <<in.name, in.attrs[j].name>> \in StyleBearing}}

\* C12: a paragraph or table cell naming a style that the style tree
\* defines, dots in the name or not, finds the entry the resolver wrote for
\* that style and is given a class attribute
C12_EscapingConsistent ==
    tr.pc = "done" =>
        \A n \in StyleUsed(tr.in) :
            n \in DefinedStyleNames(tr.styles) =>
                /\ escapeStyleName(n) \in DOMAIN tr.resolved
                /\ HasToken(tr.out, "class=\"")


\* names written one after the other, a blank behind each
RECURSIVE Listed(_)
Listed(names) ==
    IF names = <<>> THEN <<>>
    ELSE Head(names) \o <<" ">> \o Listed(Tail(names))

Positions(out, token) == {i \in 1..Len(out) : out[i] = token}

Min(set) == CHOOSE i \in set : \A j \in set : i <= j

\* what stands between class=" and the quote that closes it
ClassValue(out) ==
    LET open == Min(Positions(out, "class=\""))
        close == Min({i \in Positions(out, "\"") : i > open})
    IN  SubSeq(out, open + 1, close - 1)

\* C13 as claimed: a style found in the map gives one class attribute that
\* lists the style's dependencies in the order the resolver recorded them
\* (parent, then family) and then the style's escaped name; a style not in
\* the map adds nothing to the tag
C13_ClassInRecordedOrder ==
    tr.pc = "done" =>
        \A n \in StyleUsed(tr.in) :
            IF n \in DOMAIN tr.resolved
            THEN /\ Cardinality(Positions(tr.out, "class=\"")) = 1
                 /\ ClassValue(tr.out)
                        = Listed(tr.resolved[n]) \o escapeStyleName(n)
            ELSE /\ ~HasToken(tr.out, "class=\"")
                 /\ SubSeq(tr.out, 1, 3) = <<"<", tr.out[2], ">">>

\* C13 as the code has it: a style found in the map gives one class
\* attribute that lists the style's dependencies last recorded first
\* (family, then parent) and then the name as the attribute has it; a style
\* not in the map gives no class attribute and leaves one blank in the tag
C13_ClassInReverseOrder ==
    tr.pc = "done" =>
        \A n \in StyleUsed(tr.in) :
            IF n \in DOMAIN tr.resolved
            THEN /\ Cardinality(Positions(tr.out, "class=\"")) = 1
                 /\ ClassValue(tr.out) = Listed(Reverse(tr.resolved[n])) \o n
            ELSE /\ ~HasToken(tr.out, "class=\"")
                 /\ SubSeq(tr.out, 1, 4) = <<"<", tr.out[2], " ", ">">>

\* a paragraph of style S, S resolved with parent P.0 and family text
C13_Witness ==
    /\ tr.pc = "done"
    /\ tr.in.name = "text:p"
    /\ StyleUsed(tr.in) = {<<"S">>}
    /\ <<"S">> \in DOMAIN tr.resolved
    /\ tr.resolved[<<"S">>] = <<<<"P", "_", "0">>, <<"t", "e", "x", "t">>>>
    /\ ClassValue(tr.out)
           = <<"t", "e", "x", "t", " ", "P", "_", "0", " ", "S">>


\* the number of blanks a whitespace run is to stand for: its count when
\* that is a number and not negative, one otherwise
RunLength(in) ==
    IF HasAttribute(in, "text:c")
           /\ ToInt64(FindAttribute(in, "text:c")).ok
           /\ ToInt64(FindAttribute(in, "text:c")).n >= 0
    THEN ToInt64(FindAttribute(in, "text:c")).n
    ELSE 1

\* C14: a text:s element with the count n >= 0 is translated to n blanks;
\* without a count, or with one that is no number or is negative, to one
\* blank; nothing of its children and no tag is written
C14_WhitespaceRun ==
    (tr.pc = "done" /\ tr.in.name = "text:s") =>
        tr.out = [i \in 1..RunLength(tr.in) |-> " "]


\* the open tag a link is to have: href="value" when there is an
\* xlink:href, and target="_self" behind it when the value starts with "#"
AnchorOpen(in) ==
    <<"<a">>
        \o (IF HasAttribute(in, "xlink:href")
            THEN <<" href=\"">> \o FindAttribute(in, "xlink:href") \o <<"\"">>
                     \o (IF FindAttribute(in, "xlink:href") # <<>>
                            /\ Head(FindAttribute(in, "xlink:href")) = "#"
                         THEN <<" target=\"_self\"">>
                         ELSE <<>>)
            ELSE <<>>)
        \o <<">">>

\* C15: a text:a element is translated to an anchor that is opened, with a
\* well-formed href when there is an xlink:href and a target="_self"
\* exactly when its value starts with "#", then holds the children and is
\* closed with </a>; without an xlink:href the anchor is opened bare
C15_Hyperlink ==
    (tr.pc = "done" /\ tr.in.name = "text:a") =>
        tr.out = AnchorOpen(tr.in)
                     \o Contributions(tr.in.children, tr.resolved)
                     \o <<"</a>">>


(***************************************************************************)
(* The resolver on styles with properties: a style S whose one properties  *)
(* child carries at most MaxProperties attributes, out of attributes with  *)
(* a table entry, the two decorations (solid or not) and an attribute the  *)
(* translator does not know.                                               *)
(***************************************************************************)
Dash == <<"d", "a", "s", "h">>

PropertyAttributes ==
    {Attribute("fo:font-size", <<"9">>),
     Attribute("fo:page-width", <<"9">>),
     Attribute("style:text-underline-style", Solid),
     Attribute("style:text-underline-style", Dash),
     Attribute("style:text-line-through-style", Solid),
     Attribute("style:text-line-through-style", Dash),
     Attribute("style:writing-mode", <<"9">>)}

RECURSIVE AttributeLists(_)
AttributeLists(n) ==
    IF n = 0 THEN {<<>>}
    ELSE {<<>>} \cup
         {<<a>> \o r : a \in PropertyAttributes, r \in AttributeLists(n - 1)}

PropertyStyles ==
    {Element("style:style", <<Attribute("style:name", <<"S">>)>>,
             <<Element("style:text-properties", attrs, <<>>)>>) :
        attrs \in AttributeLists(MaxProperties)}

NextProperties ==
    \/ \E in \in PropertyStyles : VisitStyle(in)
    \/ ReturnStyle

SpecProperties == InitStyle /\ [][NextProperties]_vars

\* the declaration one style attribute is to give
Declared(a) ==
    CASE substitution(a.name) # "" ->
             <<substitution(a.name), ":">> \o a.value \o <<";">>
      [] a.name = "style:text-underline-style" /\ a.value = Solid ->
             <<"text-decoration:underline;">>
      [] a.name = "style:text-line-through-style" /\ a.value = Solid ->
             <<"text-decoration:line-through;">>
      [] OTHER -> <<>>

RECURSIVE DeclaredAll(_)
DeclaredAll(attrs) ==
    IF attrs = <<>> THEN <<>>
    ELSE Declared(Head(attrs)) \o DeclaredAll(Tail(attrs))

\* the attributes of the properties child of the style last resolved
PropertiesOf(in) == in.children[1].attrs

\* what the style last resolved wrote between " {" and "}"
Block(out) == SubSeq(out, Min(Positions(out, " {")) + 1, Len(out) - 1)

\* C16: each attribute with a table entry gives "<css-name>:<value>;", a
\* solid underline gives "text-decoration:underline;", a solid line-through
\* gives "text-decoration:line-through;", anything else gives nothing; a
\* style with both decorations solid gets the two declarations one after
\* the other in attribute order, never one combined declaration
C16_CssPerAttribute ==
    (st.count > 0 /\ st.in \in PropertyStyles) =>
        /\ Block(st.out) = DeclaredAll(PropertiesOf(st.in))
        /\ PropertiesOf(st.in)
               = <<Attribute("fo:page-width", <<"9">>),
                   Attribute("style:writing-mode", <<"9">>)>> =>
               Block(st.out) = <<"width", ":", "9", ";">>
        /\ PropertiesOf(st.in)
               = <<Attribute("style:text-underline-style", Dash),
                   Attribute("style:text-line-through-style", Dash)>> =>
               Block(st.out) = <<>>
        /\ PropertiesOf(st.in)
               = <<Attribute("style:text-line-through-style", Solid),
                   Attribute("style:text-underline-style", Solid)>> =>
               Block(st.out) = <<"text-decoration:line-through;",
                                 "text-decoration:underline;">>

\* a style with underline and line-through, both solid
C16_Witness ==
    /\ st.count > 0
    /\ st.in \in PropertyStyles
    /\ PropertiesOf(st.in)
           = <<Attribute("style:text-underline-style", Solid),
               Attribute("style:text-line-through-style", Solid)>>
    /\ st.out = <<".", "S", ".", "S", " {", "text-decoration:underline;",
                  "text-decoration:line-through;", "}\n">>


\* C17: a translation leaves the style dependencies as the resolver left
\* them, lookups of styles that are not in the map included: the same
\* keys, under each the same entries in the same order
C17_DependenciesReadOnly ==
    tr.pc = "done" =>
        /\ DOMAIN tr.deps = DOMAIN tr.resolved
        /\ \A k \in DOMAIN tr.resolved : tr.deps[k] = tr.resolved[k]
        /\ tr.resolved = css(tr.styles, EmptyMap).deps

\* a paragraph naming the style S was translated with no style resolved
C17_Witness ==
    /\ tr.pc = "done"
    /\ tr.styles = <<>>
    /\ \E e \in ElementsOf(tr.in) : e.name = "text:p" /\ <<"S">> \in StyleUsed(e)
    /\ DOMAIN tr.deps = {}
    /\ ~HasToken(tr.out, "class=\"")


(***************************************************************************)
(* Reading an output back: the tags it opens and closes and the characters *)
(* of text between them, blanks and tabs left out.                         *)
(***************************************************************************)
Opens(tag) == [event |-> "open", tag |-> tag]

Closes(tag) == [event |-> "close", tag |-> tag]

Character(c) == [event |-> "text", tag |-> c]

RECURSIVE Scan(_, _)
Scan(out, inTag) ==
    IF out = <<>> THEN <<>>
    ELSE IF inTag
    THEN Scan(Tail(out), Head(out) # ">")
    ELSE CASE Head(out) = "<" ->
                  <<Opens(out[2])>> \o Scan(Tail(Tail(out)), TRUE)
           [] Head(out) = "<a" -> <<Opens("a")>> \o Scan(Tail(out), TRUE)
           [] Head(out) = "</" ->
                  <<Closes(out[2])>> \o Scan(Tail(Tail(out)), TRUE)
           [] Head(out) = "</a>" -> <<Closes("a")>> \o Scan(Tail(out), FALSE)
           [] Head(out) \in {" ", "\t"} -> Scan(Tail(out), FALSE)
           [] OTHER -> <<Character(Head(out))>> \o Scan(Tail(out), FALSE)

\* the tag an element is translated to ("": it is given no tag)
TagOf(name) ==
    CASE name = "text:p" -> "p"
      [] name = "text:h" -> "h"
      [] name = "text:span" -> "span"
      [] name \in {"text:a", "text:bookmark", "text:bookmark-start"} -> "a"
      [] name = "text:line-break" -> "br"
      [] name = "text:list" -> "ul"
      [] name = "text:list-item" -> "li"
      [] name = "table:table" -> "table"
      [] name = "table:table-column" -> "col"
      [] name = "table:table-row" -> "tr"
      [] name = "table:table-cell" -> "td"
      [] OTHER -> ""

RECURSIVE Characters(_)
Characters(value) ==
    IF value = <<>> THEN <<>>
    ELSE <<Character(Head(value))>> \o Characters(Tail(value))

\* a tree read in document order: every node once, an element with a tag
\* opened before and closed behind all that is below it
RECURSIVE Skeleton(_)
RECURSIVE SkeletonOfAll(_)
Skeleton(node) ==
    CASE node.kind = "text" -> Characters(node.value)
      [] node.kind = "element" /\ TagOf(node.name) # "" ->
             <<Opens(TagOf(node.name))>> \o SkeletonOfAll(node.children)
                 \o <<Closes(TagOf(node.name))>>
      [] OTHER -> SkeletonOfAll(node.children)

SkeletonOfAll(nodes) ==
    IF nodes = <<>> THEN <<>>
    ELSE Skeleton(Head(nodes)) \o SkeletonOfAll(Tail(nodes))

\* every close matches the tag opened last and nothing stays open
RECURSIVE Balanced(_, _)
Balanced(events, open) ==
    IF events = <<>> THEN open = <<>>
    ELSE CASE Head(events).event = "open" ->
                  Balanced(Tail(events), <<Head(events).tag>> \o open)
           [] Head(events).event = "close" ->
                  /\ open # <<>>
                  /\ Head(open) = Head(events).tag
                  /\ Balanced(Tail(events), Tail(open))
           [] OTHER -> Balanced(Tail(events), open)

\* C18: the output of a tree holds, in document order, the text of every
\* node once and for every element with a tag its opening tag before and
\* its closing tag behind what its descendants give; the tags are balanced
\* and properly nested; elements that are dropped, have no rule, or are
\* whitespace runs or tabs give no tag
C18_WellNested ==
    tr.pc = "done" =>
        /\ Scan(tr.out, FALSE) = Skeleton(tr.in)
        /\ Balanced(Scan(tr.out, FALSE), <<>>)

\* a link in a paragraph
C18_Witness ==
    /\ tr.pc = "done"
    /\ tr.in.name = "text:p"
    /\ Scan(tr.out, FALSE)
           = <<Opens("p"), Opens("a"), Character("a"), Closes("a"),
               Closes("p")>>

====
